---- MODULE Spec2Model ----
(***************************************************************************)
(* Model of the product-damage-detection UI: the Home component of         *)
(* src/app/page.tsx (upload handler, detection list, hover / select /      *)
(* sort / view-mode state).                                                *)
(*                                                                         *)
(* Conventions                                                             *)
(*   - a nullable value (T | null) is <<>> for null and <<v>> for v;       *)
(*   - indices held in hoveredBoxIdx / selectedBoxIdx are 0-based, as in   *)
(*     the source; TLA+ sequences are 1-based, so index i addresses        *)
(*     predictions[i + 1];                                                 *)
(*   - probabilities are in percent (0.5 is 50);                           *)
(*   - a file name is a tuple of one-character strings;                    *)
(*   - every object produced by parsing a response has an identity `ref`   *)
(*     (<<upload, position in the response>>): JavaScript compares         *)
(*     objects by identity, not by their fields.                           *)
(***************************************************************************)
EXTENDS Integers, Sequences, FiniteSets, TLC

\* ------------------------------------------------------------------ bounds
\* accepted uploads (calls of URL.createObjectURL) in one session
MaxUploads == 2
\* detections in one backend response
MaxDets == 2

\* ------------------------------------------------------------- input sets
Null == <<>>
Some(v) == <<v>>

\* file names the user may pick
FileNames ==
  { <<"a", ".", "p", "n", "g">>,
    <<"a", ".", "P", "n", "G">>,
    <<"a", ".", "j", "p", "g">>,
    <<"a", ".", "j", "p", "e", "g">>,
    <<"a", ".", "J", "P", "E", "G">>,
    <<"a", ".", "g", "i", "f", ".", "j", "p", "g">>,
    <<"a", ".", "g", "i", "f">>,
    <<"a", ".", "p", "n", "g", ".", "g", "i", "f">>,
    <<"a", ".", "p", "n", "g", "x">>,
    <<"a", ".", "j", "p", "e">>,
    <<"a", "p", "n", "g">>,
    <<>> }

\* the detections a backend response may carry (tagId, tagName, probability,
\* boundingBox as in type Prediction)
\* (the fields of a boundingBox are fractions of the image, written here in
\* percent)
Box1 == [left |-> 10, top |-> 20, width |-> 30, height |-> 40]
Box2 == [left |-> 0, top |-> 50, width |-> 100, height |-> 50]
DetVals ==
  { [tagId |-> "t1", tagName |-> "dent",    probability |-> 55, boundingBox |-> Box1],
    [tagId |-> "t2", tagName |-> "scratch", probability |-> 92, boundingBox |-> Box2],
    [tagId |-> "t1", tagName |-> "dent",    probability |-> 50, boundingBox |-> Box1] }

RECURSIVE SeqsUpTo(_, _)
SeqsUpTo(S, n) ==
  IF n = 0 THEN { <<>> }
  ELSE LET shorter == SeqsUpTo(S, n - 1)
       IN  shorter \cup { Append(s, x) : s \in { t \in shorter : Len(t) = n - 1 }, x \in S }

\* what the body of a response may turn out to be when it is read: JSON of the
\* expected shape, JSON without the nested predictions array, or text that is
\* not JSON
Bodies ==
  { [kind |-> "json", dets |-> ds] : ds \in SeqsUpTo(DetVals, MaxDets) }
  \cup { [kind |-> "noshape", dets |-> <<>>], [kind |-> "notjson", dets |-> <<>>] }

\* status codes the relay answers with; res.ok is status in 200..299
Statuses == { 200, 400, 500 }
IsOk(status) == status >= 200 /\ status <= 299

\* messages of the errors the platform throws (fetch rejection, res.json()
\* rejection, property access on undefined); "" is an error without message
FetchErrors == { "Failed to fetch", "" }
JsonError == "Unexpected token"
ShapeError == "Cannot read properties of undefined"

\* ------------------------------------------------------------------ state
\* img.width and img.height of the mounted element: before its image has
\* loaded, and the sizes the layout may give it afterwards
Unloaded == [width |-> 0, height |-> 0]
Layout == [width |-> 100, height |-> 50]
Sizes ==
  { Layout,
    [width |-> 200, height |-> 50],
    [width |-> 200, height |-> 100] }

VARIABLES
  imageUrl,         \* useState<string | null>: preview URL, named by its upload
  predictions,      \* useState<Prediction[]>
  loading,          \* useState(false)
  error,            \* useState<string | null>
  hoveredBoxIdx,    \* useState<number | null>
  selectedBoxIdx,   \* useState<number | null>
  sortBy,           \* useState<"confidence" | "name">
  viewMode,         \* useState<"list" | "grid">
  handlers,         \* the runs of handleFileChange suspended at an await
  created,          \* number of URL.createObjectURL calls so far
  imageRef,         \* imageRef.current: no element, or its width and height
  overlayStyles,    \* style of the overlay of each detection, as last rendered
  relay             \* the run of POST in the route handler: position and data

vars == << imageUrl, predictions, loading, error, hoveredBoxIdx, selectedBoxIdx,
          sortBy, viewMode, handlers, created, imageRef, overlayStyles, relay >>

Init ==
  /\ imageUrl = Null
  /\ predictions = <<>>
  /\ loading = FALSE
  /\ error = Null
  /\ hoveredBoxIdx = Null
  /\ selectedBoxIdx = Null
  /\ sortBy = "confidence"
  /\ viewMode = "list"
  /\ handlers = {}
  /\ created = 0
  /\ imageRef = Null
  /\ overlayStyles = <<>>
  /\ relay = [pc |-> "idle", file |-> Null, forwarded |-> Null,
              backendRes |-> Null, response |-> Null]

\* ------------------------------------------------- file-name validation
ValidationError == "Only PNG, JPG, and JPEG files are allowed."
HttpError == "Failed to get prediction"
UnknownError == "Unknown error"

\* the pattern without the i flag
ToLowerNoFlag(c) == c

\* the i flag: a character is compared after case folding
ToLower(c) ==
  CASE c = "P" -> "p"
    [] c = "N" -> "n"
    [] c = "G" -> "g"
    [] c = "J" -> "j"
    [] c = "E" -> "e"
    [] OTHER -> c

\* character i of name exists and is ch, case folded
CharIs(name, i, ch) == i <= Len(name) /\ ToLower(name[i]) = ch

\* $ without the m flag: the match ends where the input ends
AtEnd(name, i) == i = Len(name) + 1

\* \.(png|jpe?g)$ tried at position p
MatchAt(name, p) ==
  /\ CharIs(name, p, ".")
  /\ \/ /\ CharIs(name, p + 1, "p")
        /\ CharIs(name, p + 2, "n")
        /\ CharIs(name, p + 3, "g")
        /\ AtEnd(name, p + 4)
     \/ /\ CharIs(name, p + 1, "j")
        /\ CharIs(name, p + 2, "p")
        /\ \/ /\ CharIs(name, p + 3, "e")
              /\ CharIs(name, p + 4, "g")
              /\ AtEnd(name, p + 5)
           \/ /\ CharIs(name, p + 3, "g")
              /\ AtEnd(name, p + 4)

\* /\.(png|jpe?g)$/i.test(file.name): the pattern is tried at every position
RegexTest(name) == \E p \in 1..Len(name) : MatchAt(name, p)

\* the outcome of the test for each file name the user may pick
TestPasses == [ n \in FileNames |-> RegexTest(n) ]

\* --------------------------------------------------- response handling
\* res.json(): every element of the nested array becomes a fresh object
ParseDetections(id, dets) ==
  [ k \in 1..Len(dets) |->
      [ ref         |-> <<id, k>>,
        tagId       |-> dets[k].tagId,
        tagName     |-> dets[k].tagName,
        probability |-> dets[k].probability,
        boundingBox |-> dets[k].boundingBox ] ]

\* the threshold test written with >=
AtOrAboveThreshold(p) == p.probability >= 50

\* (p) => p.probability > 0.5
AboveThreshold(p) == p.probability > 50

\* data.predictions.predictions.filter((p) => p.probability > 0.5)
FilterPredictions(ps) == SelectSeq(ps, AboveThreshold)

\* err.message || "Unknown error"
ErrorText(msg) == IF msg = "" THEN UnknownError ELSE msg

\* ------------------------------------------------------------- sorting
NameOrder == [ n \in {"dent", "scratch"} |-> IF n = "dent" THEN 1 ELSE 2 ]

\* a.localeCompare(b) on the tag names of DetVals
LocaleCompare(a, b) ==
  IF a = b THEN 0 ELSE IF NameOrder[a] < NameOrder[b] THEN -1 ELSE 1

\* the comparator handed to sort for a sort mode
Compare(mode, a, b) ==
  IF mode = "confidence"
  THEN b.probability - a.probability
  ELSE LocaleCompare(a.tagName, b.tagName)

\* one step of a sort that puts x in front of the elements it ties with
InsertBeforeTies(t, x, mode) ==
  LET k == Cardinality({ i \in 1..Len(t) : Compare(mode, t[i], x) < 0 })
  IN  SubSeq(t, 1, k) \o <<x>> \o SubSeq(t, k + 1, Len(t))

\* one step of a stable sort: x goes behind every element that does not
\* compare greater than it
Insert(t, x, mode) ==
  LET k == Cardinality({ i \in 1..Len(t) : Compare(mode, t[i], x) <= 0 })
  IN  SubSeq(t, 1, k) \o <<x>> \o SubSeq(t, k + 1, Len(t))

RECURSIVE StableSort(_, _)
StableSort(s, mode) ==
  IF s = <<>> THEN <<>>
  ELSE Insert(StableSort(SubSeq(s, 1, Len(s) - 1), mode), s[Len(s)], mode)

\* useMemo(() => { const sorted = [...predictions]; sorted.sort(...) })
SortedOf(ps, mode) == StableSort(ps, mode)
sortedPredictions == SortedOf(predictions, sortBy)

\* a lookup by the fields of the detection instead of by the object
SameFields(a, b) ==
  /\ a.tagId = b.tagId
  /\ a.tagName = b.tagName
  /\ a.probability = b.probability
  /\ a.boundingBox = b.boundingBox

IndexOfByFields(ps, x) ==
  IF \E i \in 1..Len(ps) : SameFields(ps[i], x)
  THEN (CHOOSE i \in 1..Len(ps) :
          SameFields(ps[i], x) /\ \A j \in 1..(i - 1) : ~SameFields(ps[j], x)) - 1
  ELSE -1

\* Array.prototype.indexOf: 0-based position of the first element identical
\* to x (the same object), -1 if there is none
IndexOf(ps, x) ==
  IF \E i \in 1..Len(ps) : ps[i] = x
  THEN (CHOOSE i \in 1..Len(ps) : ps[i] = x /\ \A j \in 1..(i - 1) : ps[j] # x) - 1
  ELSE -1

\* const originalIdx = predictions.indexOf(pred), for row k of the sorted list
OriginalIdx(ps, mode, k) == IndexOf(ps, SortedOf(ps, mode)[k])

\* a click that only ever selects
ToggleSelectOnly(sel, idx) == Some(idx)

\* selectedBoxIdx === idx ? null : idx
Toggle(sel, idx) == IF sel = Some(idx) THEN Null ELSE Some(idx)

\* ------------------------------------------------------ overlay geometry
\* a box style whose top is taken from the width of the image
getBoxStyleTopByWidth(box, current) ==
  IF current = Null THEN [display |-> "none"]
  ELSE LET img == current[1]
       IN  [position |-> "absolute",
            left   |-> box.left * img.width,
            top    |-> box.top * img.width,
            width  |-> box.width * img.width,
            height |-> box.height * img.height]

\* getBoxStyle(box), with current the value of imageRef.current it reads;
\* lengths are in hundredths of a pixel, the boxes being in percent
getBoxStyle(box, current) ==
  IF current = Null THEN [display |-> "none"]
  ELSE LET img == current[1]
       IN  [position |-> "absolute",
            left   |-> box.left * img.width,
            top    |-> box.top * img.height,
            width  |-> box.width * img.width,
            height |-> box.height * img.height]

\* predictions.map((pred, idx) => <div style={getBoxStyle(pred.boundingBox)}>)
OverlaysOf(ps, current) ==
  [ i \in 1..Len(ps) |-> getBoxStyle(ps[i].boundingBox, current) ]

\* a render pass after a state change: the overlays of the new list are
\* styled with the element as the pass finds it
Render(current) == overlayStyles' = OverlaysOf(predictions', current)

\* React renders again only if a setter stored a value that differs
RenderIf(changed) ==
  overlayStyles' = IF changed THEN OverlaysOf(predictions', imageRef)
                   ELSE overlayStyles

\* ---------------------------------------------------------------- actions
\* handleFileChange, no file chosen: returns after the two resets
SelectNone ==
  /\ error' = Null
  /\ predictions' = <<>>
  /\ UNCHANGED << imageUrl, loading, hoveredBoxIdx, selectedBoxIdx, sortBy,
                  viewMode, handlers, created >>
  /\ UNCHANGED imageRef
  /\ Render(imageRef)
  /\ UNCHANGED relay

\* handleFileChange, the name fails the pattern
SelectRejected(name) ==
  /\ ~TestPasses[name]
  /\ predictions' = <<>>
  /\ error' = Some(ValidationError)
  /\ UNCHANGED << imageUrl, loading, hoveredBoxIdx, selectedBoxIdx, sortBy,
                  viewMode, handlers, created >>
  /\ UNCHANGED imageRef
  /\ Render(imageRef)
  /\ UNCHANGED relay

\* an accepted selection that forgets the two resets
SelectAcceptedNoReset(name) ==
  /\ TestPasses[name]
  /\ created < MaxUploads
  /\ created' = created + 1
  /\ imageUrl' = Some(created + 1)
  /\ loading' = TRUE
  /\ handlers' = handlers \cup { [id |-> created + 1, pc |-> "fetch"] }
  /\ UNCHANGED << error, predictions, hoveredBoxIdx, selectedBoxIdx, sortBy, viewMode >>
  /\ imageRef' = IF imageRef = Null THEN Some(Unloaded) ELSE imageRef
  /\ Render(imageRef)
  /\ UNCHANGED relay

\* handleFileChange, the name passes: runs up to the await of fetch
SelectAccepted(name) ==
  /\ TestPasses[name]
  /\ created < MaxUploads
  /\ error' = Null
  /\ predictions' = <<>>
  /\ created' = created + 1
  /\ imageUrl' = Some(created + 1)
  /\ loading' = TRUE
  /\ handlers' = handlers \cup { [id |-> created + 1, pc |-> "fetch"] }
  /\ UNCHANGED << hoveredBoxIdx, selectedBoxIdx, sortBy, viewMode >>
  /\ imageRef' = IF imageRef = Null THEN Some(Unloaded) ELSE imageRef
  /\ Render(imageRef)
  /\ UNCHANGED relay

\* the change event of the file input; file is e.target.files?.[0]
HandleFileChange(file) ==
  \/ file = Null /\ SelectNone
  \/ file # Null /\ SelectRejected(file[1])
  \/ file # Null /\ SelectAccepted(file[1])

\* a catch block without the finally block
FailNoFinally(h, msg) ==
  /\ error' = Some(ErrorText(msg))
  /\ handlers' = handlers \ {h}
  /\ UNCHANGED << imageUrl, predictions, loading, hoveredBoxIdx, selectedBoxIdx,
                  sortBy, viewMode, created >>
  /\ UNCHANGED imageRef
  /\ RenderIf(error' # error)
  /\ UNCHANGED relay

\* the catch and finally blocks of the run h
Fail(h, msg) ==
  /\ error' = Some(ErrorText(msg))
  /\ loading' = FALSE
  /\ handlers' = handlers \ {h}
  /\ UNCHANGED << imageUrl, predictions, hoveredBoxIdx, selectedBoxIdx, sortBy,
                  viewMode, created >>
  /\ UNCHANGED imageRef
  /\ RenderIf(error' # error \/ loading' # loading)
  /\ UNCHANGED relay

\* fetch rejects: no response at all
FetchRejects(h, msg) ==
  /\ h \in handlers
  /\ h.pc = "fetch"
  /\ Fail(h, msg)

\* fetch resolves with the head of a response: !res.ok throws, otherwise
\* res.json() is awaited
FetchResolves(h, status) ==
  /\ h \in handlers
  /\ h.pc = "fetch"
  /\ \/ ~IsOk(status) /\ Fail(h, HttpError)
     \/ /\ IsOk(status)
        /\ handlers' = (handlers \ {h}) \cup { [h EXCEPT !.pc = "json"] }
        /\ UNCHANGED << imageUrl, predictions, loading, error, hoveredBoxIdx,
                        selectedBoxIdx, sortBy, viewMode, created, imageRef,
                        overlayStyles, relay >>

\* a store that is fenced: only the run of the upload started last stores
StoreDetectionsFenced(h, dets) ==
  /\ predictions' = IF h.id = created
                    THEN FilterPredictions(ParseDetections(h.id, dets))
                    ELSE predictions
  /\ loading' = FALSE
  /\ handlers' = handlers \ {h}
  /\ UNCHANGED << imageUrl, error, hoveredBoxIdx, selectedBoxIdx, sortBy,
                  viewMode, created >>
  /\ UNCHANGED imageRef
  /\ Render(imageRef)
  /\ UNCHANGED relay

\* the try block after res.json() has produced data, and the finally block
StoreDetections(h, dets) ==
  /\ predictions' = FilterPredictions(ParseDetections(h.id, dets))
  /\ loading' = FALSE
  /\ handlers' = handlers \ {h}
  /\ UNCHANGED << imageUrl, error, hoveredBoxIdx, selectedBoxIdx, sortBy,
                  viewMode, created >>
  /\ UNCHANGED imageRef
  /\ Render(imageRef)
  /\ UNCHANGED relay

\* res.json() settles once the body has been read: the filtered list is
\* stored, or the failure is caught
JsonSettles(h, body) ==
  /\ h \in handlers
  /\ h.pc = "json"
  /\ \/ body.kind = "json" /\ StoreDetections(h, body.dets)
     \/ body.kind = "notjson" /\ Fail(h, JsonError)
     \/ body.kind = "noshape" /\ Fail(h, ShapeError)

\* the image of the mounted element has loaded and is laid out with a size;
\* onLoad: setPredictions([...predictions]), and the render pass that follows
ImgLoad(size) ==
  /\ imageUrl # Null
  /\ imageRef # Null
  /\ imageRef' = Some(size)
  /\ predictions' = [ i \in 1..Len(predictions) |-> predictions[i] ]
  /\ UNCHANGED << imageUrl, loading, error, hoveredBoxIdx, selectedBoxIdx, sortBy,
                  viewMode, handlers, created >>
  /\ Render(imageRef')
  /\ UNCHANGED relay

\* the layout gives the loaded image another size (window or container
\* resize): no handler is registered for it, no state changes, nothing renders
Resize(size) ==
  /\ imageRef \notin { Null, Some(Unloaded) }
  /\ imageRef # Some(size)
  /\ imageRef' = Some(size)
  /\ UNCHANGED << imageUrl, predictions, loading, error, hoveredBoxIdx,
                  selectedBoxIdx, sortBy, viewMode, handlers, created,
                  overlayStyles, relay >>

\* the rows of the list and the sort / view controls are rendered only for a
\* non-empty list; the overlays are rendered over the image
ListShown == Len(predictions) > 0
OverlaysShown == imageUrl # Null

\* onClick of row k of the sorted list
ClickRow(k) ==
  /\ ListShown
  /\ k \in 1..Len(sortedPredictions)
  /\ selectedBoxIdx' = Toggle(selectedBoxIdx, OriginalIdx(predictions, sortBy, k))
  /\ UNCHANGED << imageUrl, predictions, loading, error, hoveredBoxIdx, sortBy,
                  viewMode, handlers, created >>
  /\ UNCHANGED imageRef
  /\ RenderIf(selectedBoxIdx' # selectedBoxIdx)
  /\ UNCHANGED relay

\* onClick of the overlay of predictions[idx]
ClickOverlay(idx) ==
  /\ OverlaysShown
  /\ idx \in 0..(Len(predictions) - 1)
  /\ selectedBoxIdx' = Toggle(selectedBoxIdx, idx)
  /\ UNCHANGED << imageUrl, predictions, loading, error, hoveredBoxIdx, sortBy,
                  viewMode, handlers, created >>
  /\ UNCHANGED imageRef
  /\ RenderIf(selectedBoxIdx' # selectedBoxIdx)
  /\ UNCHANGED relay

\* onMouseEnter of row k of the sorted list
EnterRow(k) ==
  /\ ListShown
  /\ k \in 1..Len(sortedPredictions)
  /\ hoveredBoxIdx' = Some(OriginalIdx(predictions, sortBy, k))
  /\ UNCHANGED << imageUrl, predictions, loading, error, selectedBoxIdx, sortBy,
                  viewMode, handlers, created >>
  /\ UNCHANGED imageRef
  /\ RenderIf(hoveredBoxIdx' # hoveredBoxIdx)
  /\ UNCHANGED relay

\* onMouseEnter of the overlay of predictions[idx]
EnterOverlay(idx) ==
  /\ OverlaysShown
  /\ idx \in 0..(Len(predictions) - 1)
  /\ hoveredBoxIdx' = Some(idx)
  /\ UNCHANGED << imageUrl, predictions, loading, error, selectedBoxIdx, sortBy,
                  viewMode, handlers, created >>
  /\ UNCHANGED imageRef
  /\ RenderIf(hoveredBoxIdx' # hoveredBoxIdx)
  /\ UNCHANGED relay

\* onMouseLeave of a row or of an overlay
MouseLeave ==
  /\ ListShown
  /\ hoveredBoxIdx' = Null
  /\ UNCHANGED << imageUrl, predictions, loading, error, selectedBoxIdx, sortBy,
                  viewMode, handlers, created >>
  /\ UNCHANGED imageRef
  /\ RenderIf(hoveredBoxIdx' # hoveredBoxIdx)
  /\ UNCHANGED relay

\* a sort change that also drops the selection
SetSortByDropsSelection(mode) ==
  /\ ListShown
  /\ sortBy' = mode
  /\ selectedBoxIdx' = Null
  /\ UNCHANGED << imageUrl, predictions, loading, error, hoveredBoxIdx,
                  viewMode, handlers, created >>
  /\ UNCHANGED imageRef
  /\ RenderIf(sortBy' # sortBy \/ selectedBoxIdx' # selectedBoxIdx)
  /\ UNCHANGED relay

\* a sort change that sorts the array of the state itself
SetSortByInPlace(mode) ==
  /\ ListShown
  /\ sortBy' = mode
  /\ predictions' = SortedOf(predictions, mode)
  /\ UNCHANGED << imageUrl, loading, error, hoveredBoxIdx, selectedBoxIdx,
                  viewMode, handlers, created >>
  /\ UNCHANGED imageRef
  /\ RenderIf(TRUE)
  /\ UNCHANGED relay

\* onChange of the sort dropdown
SetSortBy(mode) ==
  /\ ListShown
  /\ sortBy' = mode
  /\ UNCHANGED << imageUrl, predictions, loading, error, hoveredBoxIdx,
                  selectedBoxIdx, viewMode, handlers, created >>
  /\ UNCHANGED imageRef
  /\ RenderIf(sortBy' # sortBy)
  /\ UNCHANGED relay

\* onClick of a view-mode button
SetViewMode(mode) ==
  /\ ListShown
  /\ viewMode' = mode
  /\ UNCHANGED << imageUrl, predictions, loading, error, hoveredBoxIdx,
                  selectedBoxIdx, sortBy, handlers, created >>
  /\ UNCHANGED imageRef
  /\ RenderIf(viewMode' # viewMode)
  /\ UNCHANGED relay

\* ------------------------------------------------------------ rendering
\* style.border of the inner div of the overlay of predictions[idx]
OverlayBorder(idx) ==
  IF selectedBoxIdx = Some(idx) THEN "3px solid #60a5fa"
  ELSE IF hoveredBoxIdx = Some(idx) THEN "2px solid #3b82f6"
  ELSE "2px solid #1e40af"

\* the state-driven part of className of the row whose originalIdx is idx;
\* its hover: variant follows the pointer over the row, not hoveredBoxIdx
RowClassName(idx) ==
  IF selectedBoxIdx = Some(idx)
  THEN "border-2 border-blue-400 bg-blue-500/30 shadow-lg shadow-blue-500/20"
  ELSE "border-2 border-transparent bg-slate-600/50 hover:bg-slate-600/70"

\* the object URLs handed to URL.revokeObjectURL: the component never calls it
RevokedUrls == {}

Files == { Null } \cup { Some(n) : n \in FileNames }

\* the events of the upload handler: a file selection, and the settling of
\* the awaits of a suspended run
ResponseEvent ==
  \/ \E h \in handlers, msg \in FetchErrors : FetchRejects(h, msg)
  \/ \E h \in handlers, status \in Statuses : FetchResolves(h, status)
  \/ \E h \in handlers, body \in Bodies : JsonSettles(h, body)

\* the pointer and control events of the detection list and the overlays
UiEvent ==
  \/ \E k \in 1..MaxDets : ClickRow(k)
  \/ \E idx \in 0..(MaxDets - 1) : ClickOverlay(idx)
  \/ \E k \in 1..MaxDets : EnterRow(k)
  \/ \E idx \in 0..(MaxDets - 1) : EnterOverlay(idx)
  \/ MouseLeave
  \/ \E mode \in {"confidence", "name"} : SetSortBy(mode)
  \/ \E mode \in {"list", "grid"} : SetViewMode(mode)

\* the component under every event, in any order
Next ==
  \/ \E file \in Files : HandleFileChange(file)
  \/ ResponseEvent
  \/ \E size \in Sizes : ImgLoad(size)
  \/ \E size \in Sizes : Resize(size)
  \/ UiEvent

Spec == Init /\ [][Next]_vars

\* the upload handler alone: the user selects files, overlapping at will, and
\* touches nothing else; the layout gives every image the same size
NextUpload ==
  \/ \E file \in Files : HandleFileChange(file)
  \/ ResponseEvent
  \/ ImgLoad(Layout)

SpecUpload == Init /\ [][NextUpload]_vars

\* the interaction layer: every pointer and control event, over the lists of
\* uploads that are made one after the other
NextView ==
  \/ handlers = {} /\ \E file \in Files : HandleFileChange(file)
  \/ ResponseEvent
  \/ ImgLoad(Layout)
  \/ UiEvent

SpecView == Init /\ [][NextView]_vars

\* the interaction layer over an image whose element is resized by the layout
NextImage ==
  \/ NextView
  \/ \E size \in Sizes : ImgLoad(size)
  \/ \E size \in Sizes : Resize(size)

SpecImage == Init /\ [][NextImage]_vars

\* ------------------------------------------------ the relay: /api/predict
\* the state of the page component, which the route handler never touches
homeVars == << imageUrl, predictions, loading, error, hoveredBoxIdx, selectedBoxIdx,
              sortBy, viewMode, handlers, created, imageRef, overlayStyles >>

\* formData.get("file"): no such field, a string, or a File
FormFields ==
  { Null,
    Some([kind |-> "string", name |-> "a.png"]),
    Some([kind |-> "file", name |-> "a.png"]),
    Some([kind |-> "file", name |-> "b.jpg"]) }

\* what the backend may answer: status, content-type header (its parts; <<>>
\* is a response without the header) and body text
BackendStatuses == { 200, 201, 400, 404, 500 }
ContentTypes ==
  { <<"application/json">>,
    <<"application/json", "; charset=utf-8">>,
    <<"text/plain">>,
    <<>> }
BodyTexts == { "[1]", "[ 1 ]", "{}", "oops", "" }
BackendResponses ==
  [ status : BackendStatuses, contentType : ContentTypes, body : BodyTexts ]

\* JSON.parse of a body text: the value, named by its canonical text, or
\* nothing for a text that is not JSON (backendRes.json() rejects)
ParseJson(text) ==
  IF text \in { "[1]", "[ 1 ]" } THEN Some("[1]")
  ELSE IF text = "{}" THEN Some("{}")
  ELSE Null

\* JSON.stringify of a value
Stringify(value) == value

NoFileError == "{\"error\":\"No file uploaded\"}"
BackendError == "{\"error\":\"Backend error\"}"

\* contentType.includes("application/json"), on the parts of the header
IncludesJson(contentType) ==
  \E i \in 1..Len(contentType) : contentType[i] = "application/json"

\* NextResponse.json(data, { status }); the status defaults to 200
JsonResponse(text, status) ==
  [status |-> status, body |-> text, contentType |-> "application/json"]

\* new NextResponse(text, { status })
TextResponse(text, status) ==
  [status |-> status, body |-> text, contentType |-> "text/plain;charset=UTF-8"]

\* POST up to its first return or to the await of fetch
POST(file) ==
  /\ relay.pc # "fetch"
  /\ IF file = Null \/ file[1].kind = "string"
     THEN relay' = [pc |-> "done", file |-> file, forwarded |-> Null,
                    backendRes |-> Null,
                    response |-> Some(JsonResponse(NoFileError, 400))]
     ELSE relay' = [pc |-> "fetch", file |-> file, forwarded |-> file,
                    backendRes |-> Null, response |-> Null]
  /\ UNCHANGED homeVars

\* the fetch of the backend rejects: nothing catches it, POST throws
BackendRejects ==
  /\ relay.pc = "fetch"
  /\ relay' = [relay EXCEPT !.pc = "threw"]
  /\ UNCHANGED homeVars

\* a relay that answers a JSON success with the status of the backend
BackendRespondsKeepStatus(backendRes) ==
  /\ relay.pc = "fetch"
  /\ IF ~IsOk(backendRes.status)
     THEN relay' = [relay EXCEPT !.pc = "done", !.backendRes = Some(backendRes),
                                 !.response = Some(JsonResponse(BackendError, 500))]
     ELSE IF IncludesJson(backendRes.contentType)
     THEN IF ParseJson(backendRes.body) = Null
          THEN relay' = [relay EXCEPT !.pc = "threw", !.backendRes = Some(backendRes)]
          ELSE relay' = [relay EXCEPT !.pc = "done", !.backendRes = Some(backendRes),
                           !.response = Some(JsonResponse(
                              Stringify(ParseJson(backendRes.body)[1]),
                              backendRes.status))]
     ELSE relay' = [relay EXCEPT !.pc = "done", !.backendRes = Some(backendRes),
                      !.response = Some(TextResponse(backendRes.body, backendRes.status))]
  /\ UNCHANGED homeVars

\* the fetch of the backend resolves: POST from there to its return, or to the
\* rejection of backendRes.json(), which nothing catches
BackendResponds(backendRes) ==
  /\ relay.pc = "fetch"
  /\ IF ~IsOk(backendRes.status)
     THEN relay' = [relay EXCEPT !.pc = "done", !.backendRes = Some(backendRes),
                                 !.response = Some(JsonResponse(BackendError, 500))]
     ELSE IF IncludesJson(backendRes.contentType)
     THEN IF ParseJson(backendRes.body) = Null
          THEN relay' = [relay EXCEPT !.pc = "threw", !.backendRes = Some(backendRes)]
          ELSE relay' = [relay EXCEPT !.pc = "done", !.backendRes = Some(backendRes),
                           !.response = Some(JsonResponse(
                              Stringify(ParseJson(backendRes.body)[1]), 200))]
     ELSE relay' = [relay EXCEPT !.pc = "done", !.backendRes = Some(backendRes),
                      !.response = Some(TextResponse(backendRes.body, backendRes.status))]
  /\ UNCHANGED homeVars

\* the route handler, one request after the other
NextRelay ==
  \/ \E file \in FormFields : POST(file)
  \/ BackendRejects
  \/ \E backendRes \in BackendResponses : BackendResponds(backendRes)

SpecRelay == Init /\ [][NextRelay]_vars

\* ======================================================== properties
\* ---- vocabulary of the properties
\* the positions k of a response whose detection passes the threshold
KeptPositions(dets) == { k \in 1..Len(dets) : dets[k].probability > 50 }

\* list is the detections of dets at the kept positions, in response order,
\* parsed for upload id
IsThresholdImage(list, id, dets) ==
  /\ Len(list) = Cardinality(KeptPositions(dets))
  /\ \A i \in 1..Len(list) :
       /\ list[i].ref[1] = id
       /\ list[i].ref[2] \in KeptPositions(dets)
       /\ list[i].tagId = dets[list[i].ref[2]].tagId
       /\ list[i].tagName = dets[list[i].ref[2]].tagName
       /\ list[i].probability = dets[list[i].ref[2]].probability
       /\ list[i].boundingBox = dets[list[i].ref[2]].boundingBox
  /\ \A i, j \in 1..Len(list) : i < j => list[i].ref[2] < list[j].ref[2]

\* the upload a detection list came from
FromUpload(list, id) == \A i \in 1..Len(list) : list[i].ref[1] = id

\* the messages a failed run of the handler may leave in error
FailureMessages == FetchErrors \cup { HttpError, JsonError, ShapeError }

\* the errors a run of the handler that issued a request may leave
UploadErrors == { Some(ErrorText(m)) : m \in FailureMessages }

\* a name ends in .png, .jpg or .jpeg, letters compared without case
Extensions ==
  { <<".", "p", "n", "g">>, <<".", "j", "p", "g">>, <<".", "j", "p", "e", "g">> }
UpperLetters == <<"P", "N", "G", "J", "E">>
LowerLetters == <<"p", "n", "g", "j", "e">>
Fold(c) ==
  IF \E i \in 1..5 : UpperLetters[i] = c
  THEN LowerLetters[CHOOSE i \in 1..5 : UpperLetters[i] = c]
  ELSE c
EndsWithExt(name, ext) ==
  /\ Len(name) >= Len(ext)
  /\ \A i \in 1..Len(ext) : Fold(name[Len(name) - Len(ext) + i]) = ext[i]
HasImageExt(name) == \E ext \in Extensions : EndsWithExt(name, ext)
ImageNames == { n \in FileNames : HasImageExt(n) }
OtherNames == FileNames \ ImageNames

\* the step is an early return of handleFileChange / the start of an upload
EarlyReturnStep ==
  \E f \in Files : HandleFileChange(f) /\ created' = created
UploadStartStep ==
  \E f \in Files : HandleFileChange(f) /\ created' = created + 1

\* the step ends the run h of the handler (its finally block has run)
SettleStep(h) ==
  \/ \E msg \in FetchErrors : FetchRejects(h, msg)
  \/ \E status \in Statuses : FetchResolves(h, status) /\ ~IsOk(status)
  \/ \E b \in Bodies : JsonSettles(h, b)

\* the step ends the run h in its catch block
FailureStep(h) == \E msg \in FailureMessages : Fail(h, msg)

\* the state right after an accepted selection, no response arrived yet
FreshUpload ==
  /\ error = Null
  /\ predictions = <<>>
  /\ imageUrl = Some(created)
  /\ loading

\* ---- C1
\* C1: every detection held in predictions has probability > 0.5, and when a
\* response is accepted (success status, JSON body of the expected shape) the
\* list becomes exactly the response's detections with probability > 0.5, in
\* response order; a detection with probability exactly 0.5 is left out.
C1_ThresholdFilter ==
  /\ [](\A i \in 1..Len(predictions) : predictions[i].probability > 50)
  /\ [][ \A h \in handlers, b \in Bodies :
           (JsonSettles(h, b) /\ b.kind = "json")
             => IsThresholdImage(predictions', h.id, b.dets) ]_vars

\* a list whose only detection was second in its response: the first one, at
\* or below the threshold, was left out
C1_Witness ==
  /\ Len(predictions) = 1
  /\ predictions[1].ref[2] = 2

\* ---- C2
\* C2: under any interleaving of upload starts and response arrivals, a
\* non-empty detection list was produced by the response to the upload whose
\* image is displayed.
C2_DetectionsMatchImage ==
  predictions # <<>> => (imageUrl # Null /\ FromUpload(predictions, imageUrl[1]))

\* ---- C3
\* C3: an error and a non-empty detection list from different uploads never
\* coexist: when an upload leaves its error, a non-empty list is that
\* upload's own, and when an upload stores a non-empty list, no error of an
\* upload remains.
C3_ErrorAndDetectionsSameUpload ==
  [][ /\ \A h \in handlers, msg \in FailureMessages :
           Fail(h, msg) => (predictions' = <<>> \/ FromUpload(predictions', h.id))
      /\ \A h \in handlers, b \in Bodies :
           (JsonSettles(h, b) /\ b.kind = "json" /\ predictions' # <<>>)
             => error' \notin UploadErrors ]_vars
\* ---- C4
\* C4: an accepted file selection leaves error none, the detection list empty,
\* the image reference the new file's preview and loading true, and this
\* stays so until a response arrives or another file is selected; the resets
\* of error and detections come before the extension check, so a rejected
\* selection empties the list too and replaces the earlier error.
C4_UploadStartResets ==
  [][ /\ \A f \in Files : HandleFileChange(f) => predictions' = <<>>
      /\ \A n \in ImageNames :
           HandleFileChange(Some(n))
             => /\ FreshUpload'
                /\ imageUrl' # imageUrl
      /\ \A n \in OtherNames :
           HandleFileChange(Some(n)) => error' = Some(ValidationError)
      /\ (FreshUpload /\ handlers' = handlers /\ ~(\E f \in Files : HandleFileChange(f)))
           => FreshUpload' ]_vars

\* a second upload has just started over the image of the first
C4_Witness ==
  /\ FreshUpload
  /\ created = 2

\* ---- C5
\* C5: when a new upload starts, hoveredIndex and selectedIndex are both
\* reset to none.
C5_UploadStartClearsIndices ==
  [][ UploadStartStep => (hoveredBoxIdx' = Null /\ selectedBoxIdx' = Null) ]_vars

\* ---- C6
\* C6: a file whose name does not end in .png, .jpg or .jpeg (case ignored)
\* gets the validation error, no request, no change of loading and no new
\* image reference; a file whose name does end in one of them is submitted.
C6_ExtensionGate ==
  /\ [](\A n \in FileNames : RegexTest(n) <=> n \in ImageNames)
  /\ [][ \A n \in FileNames :
           HandleFileChange(Some(n))
             => IF n \in ImageNames
                THEN /\ handlers' = handlers \cup { [id |-> created + 1, pc |-> "fetch"] }
                     /\ created' = created + 1
                ELSE /\ error' = Some(ValidationError)
                     /\ handlers' = handlers
                     /\ created' = created
                     /\ loading' = loading
                     /\ imageUrl' = imageUrl ]_vars

\* photo.gif as the first selection: the error is shown, nothing was sent, no
\* loading state, no image
C6_Witness ==
  /\ error = Some(ValidationError)
  /\ created = 0
  /\ handlers = {}
  /\ ~loading
  /\ imageUrl = Null

\* ---- C7
\* C7: when an upload fails (non-success status, transport failure, body that
\* cannot be consumed), then as its handler finishes the error is a failure
\* message, the detection list is empty and loading is false.
C7_FailureLeavesEmptyList ==
  [][ \A h \in handlers :
        FailureStep(h)
          => /\ error' \in UploadErrors
             /\ predictions' = <<>>
             /\ loading' = FALSE ]_vars

\* ---- C8
\* C8 as stated: every handling of a file selection ends with loading false,
\* the early returns included, so loading is false once every upload has
\* resolved.
C8_LoadingFalseOnEveryPath ==
  /\ [](handlers = {} => ~loading)
  /\ [][ /\ \A h \in handlers : SettleStep(h) => loading' = FALSE
         /\ EarlyReturnStep => loading' = FALSE ]_vars

\* C8 amended: a handling that issued a request ends with loading false when
\* the request settles (success, failure status, transport error, unreadable
\* body); an early return (no file, invalid type) leaves loading as it was;
\* loading is false once every started upload has resolved.
C8_LoadingClearedWhenSettled ==
  /\ [](handlers = {} => ~loading)
  /\ [][ /\ \A h \in handlers : SettleStep(h) => loading' = FALSE
         /\ EarlyReturnStep => loading' = loading ]_vars

\* an invalid file was selected while an upload was pending: loading is still
\* true
C8_Witness ==
  /\ loading
  /\ error = Some(ValidationError)
  /\ handlers # {}

\* ---- C9
\* C9: a click on detection i sets selectedIndex to none if it was i and to i
\* otherwise, on both surfaces; at most one index is selected; two clicks on
\* i in a row give back none when none was selected before.
C9_ClickToggles ==
  /\ [](/\ Len(selectedBoxIdx) <= 1
        /\ \A i \in 0..(Len(predictions) - 1) :
             selectedBoxIdx = Null => Toggle(Toggle(selectedBoxIdx, i), i) = Null)
  /\ [][ /\ \A idx \in 0..(MaxDets - 1) :
              ClickOverlay(idx)
                => selectedBoxIdx' = IF selectedBoxIdx = <<idx>> THEN <<>> ELSE <<idx>>
         /\ \A k \in 1..MaxDets :
              ClickRow(k)
                => \E i \in 0..(Len(predictions) - 1) :
                     /\ predictions[i + 1] = sortedPredictions[k]
                     /\ selectedBoxIdx' = IF selectedBoxIdx = <<i>> THEN <<>> ELSE <<i>> ]_vars

\* the second of two detections is selected
C9_Witness ==
  /\ Len(predictions) = 2
  /\ selectedBoxIdx = Some(1)

\* ---- C10
\* C10: a click (pointer-enter) on the row of detection d in the sorted list
\* is the same step as a click (pointer-enter) on the overlay of d, the one
\* at d's position in the original array, and the other way round; also when
\* two detections agree in every field.
C10_RowAndOverlayAgree ==
  [][ /\ \A k \in 1..MaxDets :
           ClickRow(k)
             => \E i \in 0..(Len(predictions) - 1) :
                  /\ predictions[i + 1].ref = sortedPredictions[k].ref
                  /\ ClickOverlay(i)
                  /\ selectedBoxIdx' \in { Null, Some(i) }
      /\ \A k \in 1..MaxDets :
           EnterRow(k)
             => \E i \in 0..(Len(predictions) - 1) :
                  /\ predictions[i + 1].ref = sortedPredictions[k].ref
                  /\ EnterOverlay(i)
                  /\ hoveredBoxIdx' = Some(i)
      /\ \A i \in 0..(MaxDets - 1) :
           ClickOverlay(i)
             => \E k \in 1..Len(sortedPredictions) :
                  /\ predictions[i + 1].ref = sortedPredictions[k].ref
                  /\ ClickRow(k)
      /\ \A i \in 0..(MaxDets - 1) :
           EnterOverlay(i)
             => \E k \in 1..Len(sortedPredictions) :
                  /\ predictions[i + 1].ref = sortedPredictions[k].ref
                  /\ EnterRow(k) ]_vars

\* two detections equal in every field, the second one selected and hovered
C10_Witness ==
  /\ Len(predictions) = 2
  /\ SameFields(predictions[1], predictions[2])
  /\ selectedBoxIdx = Some(1)
  /\ hoveredBoxIdx = Some(1)

\* ------------------------------------------------- sort and view controls
SortModes == {"confidence", "name"}
ViewModes == {"list", "grid"}

\* s holds every detection of t as often as t does
IsArrangement(s, t) ==
  /\ Len(s) = Len(t)
  /\ \A i \in 1..Len(t) :
       Cardinality({ j \in 1..Len(s) : s[j] = t[i] })
         = Cardinality({ j \in 1..Len(t) : t[j] = t[i] })

\* C11: a change of the sort mode or of the view mode leaves hoveredBoxIdx,
\* selectedBoxIdx, the detection array, the image, the error and the loading
\* flag as they were; only the displayed order (sort) or the layout (view)
\* changes, and the displayed list still holds the same detections
C11_SortAndViewFrame ==
  [][ /\ \A mode \in SortModes :
           SetSortBy(mode)
             => /\ UNCHANGED << hoveredBoxIdx, selectedBoxIdx, predictions,
                                imageUrl, error, loading, viewMode >>
                /\ LET shown == SortedOf(predictions, mode)
                   IN  IsArrangement(shown, predictions)
      /\ \A mode \in ViewModes :
           SetViewMode(mode)
             => /\ UNCHANGED << hoveredBoxIdx, selectedBoxIdx, predictions,
                                imageUrl, error, loading, sortBy >>
                /\ SortedOf(predictions', sortBy') = SortedOf(predictions, sortBy) ]_vars

\* sorted by name and shown as a grid with one detection selected and the
\* other hovered
C11_Witness ==
  /\ sortBy = "name"
  /\ viewMode = "grid"
  /\ Len(predictions) = 2
  /\ selectedBoxIdx = Some(1)
  /\ hoveredBoxIdx = Some(0)

\* the order a list sorted under mode must show between an earlier element a
\* and a later element b, and when the two tie
NameBefore(a, b) == a = "dent" /\ b = "scratch"
InOrder(mode, a, b) ==
  IF mode = "confidence"
  THEN a.probability >= b.probability
  ELSE ~NameBefore(b.tagName, a.tagName)
Ties(mode, a, b) ==
  IF mode = "confidence"
  THEN a.probability = b.probability
  ELSE a.tagName = b.tagName
PositionIn(ps, x) == CHOOSE i \in 1..Len(ps) : ps[i].ref = x.ref

\* C12: under either sort mode the displayed list is an arrangement of the
\* detection array, in descending probability (confidence) or ascending tag
\* name (name), and detections that tie keep their order of the array
C12_StableSortedArrangement ==
  \A mode \in SortModes :
    LET s == SortedOf(predictions, mode)
    IN  /\ IsArrangement(s, predictions)
        /\ \A i \in 1..Len(s) : \A j \in (i + 1)..Len(s) :
             /\ InOrder(mode, s[i], s[j])
             /\ Ties(mode, s[i], s[j])
                  => PositionIn(predictions, s[i]) < PositionIn(predictions, s[j])

\* a list shown by confidence whose array has the less probable detection
\* first
C12_Witness ==
  /\ sortBy = "confidence"
  /\ Len(predictions) = 2
  /\ predictions[1].probability < predictions[2].probability
  /\ sortedPredictions[1] = predictions[2]

\* C13: a change of the sort mode leaves the detection array in its order,
\* shows the array sorted under the new mode, and a change back would show
\* the list that was shown before
C13_SortNonDestructive ==
  [][ \A mode \in SortModes :
        SetSortBy(mode)
          => /\ predictions' = predictions
             /\ sortedPredictions' = SortedOf(predictions, mode)
             /\ SortedOf(predictions', sortBy) = sortedPredictions ]_vars

\* a list shown by name in another order than the one of the array
C13_Witness ==
  /\ sortBy = "name"
  /\ Len(predictions) = 2
  /\ sortedPredictions # predictions

\* ---------------------------------------------------------- visual tiers
\* the tier the state assigns to detection idx
TierOf(idx) ==
  IF selectedBoxIdx = Some(idx) THEN "selected"
  ELSE IF hoveredBoxIdx = Some(idx) THEN "hovered"
  ELSE "default"

\* the tier an overlay shows with a border
BorderTier(border) ==
  IF border = "3px solid #60a5fa" THEN "selected"
  ELSE IF border = "2px solid #3b82f6" THEN "hovered"
  ELSE "default"

\* the tier a row shows with a class name; the class of a row that is not
\* selected shows hovered only while the pointer is over the row itself
ClassTier(className, pointerOnRow) ==
  IF className = "border-2 border-blue-400 bg-blue-500/30 shadow-lg shadow-blue-500/20"
  THEN "selected"
  ELSE IF pointerOnRow THEN "hovered" ELSE "default"

\* where the pointer may be while hoveredBoxIdx is as it is: over the row of
\* idx only if idx is hovered, and then over the row or over the overlay
PointerOnRow(idx) == IF hoveredBoxIdx = Some(idx) THEN BOOLEAN ELSE {FALSE}

\* C14: the overlay and the list row of every detection show the tier the
\* state assigns to it: selected, otherwise hovered, otherwise default
C14_SameTierOnBothSurfaces ==
  \A idx \in 0..(Len(predictions) - 1) :
    /\ BorderTier(OverlayBorder(idx)) = TierOf(idx)
    /\ \A onRow \in PointerOnRow(idx) :
         ClassTier(RowClassName(idx), onRow) = TierOf(idx)

\* ------------------------------------------------------------ preview URLs
Unreleased == (1..created) \ RevokedUrls

\* C20: at most one preview URL is unreleased at any time
C20_AtMostOneUnreleased == Cardinality(Unreleased) <= 1

\* -------------------------------------------------------- overlay geometry
\* the rectangle of a rendered overlay style, none for a style that renders
\* nothing
RectOf(style) ==
  IF "left" \in DOMAIN style
  THEN Some(<< style.left, style.top, style.width, style.height >>)
  ELSE Null

\* the rectangle of a box on an image of W by H
Mapped(box, W, H) ==
  Some(<< box.left * W, box.top * H, box.width * W, box.height * H >>)

Measured == imageRef # Null /\ imageRef[1].width > 0 /\ imageRef[1].height > 0

\* every overlay is drawn where its box lies on the image at its current size
Fresh ==
  /\ Measured
  /\ Len(overlayStyles) = Len(predictions)
  /\ \A i \in 1..Len(predictions) :
       RectOf(overlayStyles[i])
         = Mapped(predictions[i].boundingBox, imageRef[1].width, imageRef[1].height)

\* C15: while the image element is not mounted or has no measured size (zero
\* width or height), no overlay is rendered with a geometry
C15_NoGeometryBeforeMeasured ==
  ~Measured => \A i \in 1..Len(overlayStyles) : RectOf(overlayStyles[i]) = Null

\* C16: once the image has a measured size, after its load and after every
\* later change of that size, the rendered overlays are the boxes mapped
\* against the current size
C16_OverlaysFollowSize == Measured => Fresh

Factors == 1..2

\* C17: an overlay rendered for an image of W by H has left = left * W,
\* top = top * H, width = width * W and height = height * H; rendering again
\* for the same size moves nothing; a size whose width (height) is k times the
\* former one gives k times the left and width (top and height)
C17_MapperLinear ==
  [][ /\ \A size \in Sizes :
           ImgLoad(size)
             => /\ Len(overlayStyles') = Len(predictions')
                /\ \A i \in 1..Len(predictions') :
                     RectOf(overlayStyles'[i])
                       = Mapped(predictions'[i].boundingBox, size.width, size.height)
                /\ Fresh
                     => \A i \in 1..Len(predictions), k \in Factors :
                          LET old == RectOf(overlayStyles[i])[1]
                              new == RectOf(overlayStyles'[i])[1]
                          IN  /\ size.width = k * imageRef[1].width
                                   => new[1] = k * old[1] /\ new[3] = k * old[3]
                              /\ size.height = k * imageRef[1].height
                                   => new[2] = k * old[2] /\ new[4] = k * old[4]
      /\ (Fresh /\ imageRef' = imageRef /\ predictions' = predictions)
           => overlayStyles' = overlayStyles ]_vars

\* two overlays drawn on an image of 200 by 100
C17_Witness ==
  /\ imageRef = Some([width |-> 200, height |-> 100])
  /\ Len(predictions) = 2
  /\ predictions[1].boundingBox # predictions[2].boundingBox
  /\ \A i \in 1..2 :
       RectOf(overlayStyles[i]) = Mapped(predictions[i].boundingBox, 200, 100)

\* ---------------------------------------------------------------- the relay
Handled == relay.pc \in { "done", "threw" }
FileGiven == relay.file # Null /\ relay.file[1].kind = "file"
BackendAnswered == relay.backendRes # Null
BackendOk == relay.backendRes[1].status \in 200..299
JsonTypes == { <<"application/json">>, <<"application/json", "; charset=utf-8">> }
JsonTexts == { "[1]", "[ 1 ]", "{}" }
SameJson(a, b) ==
  \/ a \in { "[1]", "[ 1 ]" } /\ b \in { "[1]", "[ 1 ]" }
  \/ a = "{}" /\ b = "{}"

PassedThrough ==
  /\ BackendAnswered
  /\ \/ relay.response[1].body = relay.backendRes[1].body
     \/ SameJson(relay.response[1].body, relay.backendRes[1].body)
ErrorShape ==
  relay.response[1].body
    \in { "{\"error\":\"No file uploaded\"}", "{\"error\":\"Backend error\"}" }

\* C19: every handled request has a response, which is the answer of the
\* backend passed on or an error object, also when the backend gave no answer
C19_AlwaysAResponse ==
  Handled => relay.response # Null /\ (PassedThrough \/ ErrorShape)

\* ------------------------------------------------------ overlapping uploads
\* C21: every successful response stores its own filtered detections at the
\* step it resolves, whichever upload it belongs to and whatever is pending,
\* and leaves the image alone; the displayed image is always the one of the
\* upload started last
C21_LastResolvedWins ==
  /\ [](created > 0 => imageUrl = Some(created))
  /\ [][ \A h \in handlers, b \in Bodies :
           (JsonSettles(h, b) /\ b.kind = "json")
             => /\ IsThresholdImage(predictions', h.id, b.dets)
                /\ imageUrl' = imageUrl ]_vars

\* both uploads have resolved with success, the first one last: its
\* detections are shown with the image of the second
C21_Witness ==
  /\ created = 2
  /\ handlers = {}
  /\ error = Null
  /\ imageUrl = Some(2)
  /\ predictions # <<>>
  /\ FromUpload(predictions, 1)

\* C22: hoveredBoxIdx and selectedBoxIdx are each none or a position of the
\* current detection list
C22_IndicesInRange ==
  \A idx \in { hoveredBoxIdx, selectedBoxIdx } :
    idx = Null \/ (0 <= idx[1] /\ idx[1] < Len(predictions))

\* C23: loading is true while a request is pending, and a step that turns
\* loading false leaves no request pending
C23_LoadingWhilePending ==
  /\ [](handlers # {} => loading)
  /\ [][ (loading /\ ~loading') => handlers' = {} ]_vars

====
